---------------------------- MODULE Spec2Model ----------------------------
(***************************************************************************)
(* Order lifecycle of the storefront client: the Cart view and placeOrder  *)
(* (src/unnamed/part_001, src/final-project/src/utils/placeOrder.ts) and   *)
(* the OrderHistory view with cancelOrder                                  *)
(* (src/final-project/src/pages/OrderHistory.tsx), over a document store   *)
(* whose every asynchronous call may succeed or fail.                      *)
(*                                                                         *)
(* One action is one run-to-completion step of the JavaScript event loop:  *)
(* a UI event handler up to its first await, or the continuation that runs *)
(* when an awaited store call settles.                                     *)
(***************************************************************************)
EXTENDS Integers, Sequences, FiniteSets, Bags, TLC

(***************************************************************************)
(* Bounds of the model.                                                    *)
(***************************************************************************)
NumProducts == 2

MaxQty == 2

MaxPlacements == 2

NumOrders == 2

MaxCancelCalls == 1

(***************************************************************************)
(* Values.                                                                 *)
(***************************************************************************)
NoUser == "null"

CurrentUid == "u1"

Users == {"u1", "a1", "a2"}

Roles == {"admin", "customer"}

Products == 1..NumProducts

\* The catalogue price of a product (an integer number of currency units).
PriceOf(p) == 5 * p

NoError == ""

\* confirmCancelId = null; the store's order ids are 1, 2, ...
NoOrder == 0

\* productId undefined; the product ids are 1, 2, ...
NoProduct == 0

\* deletingId / confirmDeleteId = null; the review ids are 1, 2, ...
NoReview == 0

LoginRequiredMsg == "You must be logged in to place an order."

PlaceFailedMsg == "Failed to place order. Please try again."

VARIABLES
    user,           \* state.auth.user: a uid, or NoUser
    roles,          \* the users collection: uid -> role
    orders,         \* the orders collection, in creation order
    notifications,  \* the notifications collection, a bag of documents
    writes,         \* notification addDoc calls in flight
    cartItems,      \* state.cart.items
    remoteCart,     \* the user's persisted cart
    location,       \* the current route
    showConfirm,    \* Cart: showConfirm
    loading,        \* Cart: loading
    errorMsg,       \* Cart: errorMsg
    nPlace,         \* number of placeOrder calls started
    po,             \* the placeOrder call of the Cart view (the latest one)
    viewOrders,     \* state.order.orders: the orders as last fetched
    ohLoading,      \* state.order.loading
    ohError,        \* state.order.error
    initFetch,      \* the fetch dispatched on mount is in flight
    currentPage,    \* OrderHistory: currentPage
    statusFilter,   \* OrderHistory: statusFilter
    confirmCancelId,\* OrderHistory: confirmCancelId (NoOrder for null)
    errorMessage,   \* OrderHistory: errorMessage
    cancels,        \* the runs of the confirm handler, in click order
    adminUpdated,   \* another client has updated the status of an order
    reviewDocs,     \* the review documents of the store, in store order
    subs,           \* the active onSnapshot subscriptions, a bag
    productId,      \* the review view's productId (NoProduct for undefined)
    reviews,        \* ReviewPage / ProductReviewsList: reviews
    filteredReviews,\* ReviewPage: filteredReviews
    rvLoading,      \* ReviewPage / ProductReviewsList: loading
    rvError,        \* ReviewPage / ProductReviewsList: error
    sortOption,     \* ReviewPage: sortOption
    minRating,      \* ReviewPage: minRating
    deletingId,     \* ProductReviewsList: deletingId (NoReview for null)
    confirmDeleteId,\* ProductReviewsList: confirmDeleteId (NoReview for null)
    deletes,        \* deleteDoc calls in flight, a bag
    logoutLoading,  \* LogoutButton: loading
    logoutError,    \* LogoutButton: error (NoError for null)
    logouts         \* the runs of handleLogout, in click order

vars == <<user, roles, orders, notifications, writes, cartItems, remoteCart,
          location, showConfirm, loading, errorMsg, nPlace, po, viewOrders,
          ohLoading, ohError, initFetch, currentPage, statusFilter,
          confirmCancelId, errorMessage, cancels, adminUpdated, reviewDocs,
          subs, productId, reviews, filteredReviews, rvLoading, rvError,
          sortOption, minRating, deletingId, confirmDeleteId, deletes,
          logoutLoading, logoutError, logouts>>

logoutVars == <<logoutLoading, logoutError, logouts>>

reviewVars == <<reviewDocs, subs, productId, reviews, filteredReviews, rvLoading,
                rvError, sortOption, minRating, deletingId, confirmDeleteId,
                deletes>>

ohVars == <<viewOrders, ohLoading, ohError, initFetch, currentPage,
            statusFilter, confirmCancelId, errorMessage, cancels, adminUpdated>>

cartVars == <<cartItems, remoteCart, location, showConfirm, loading, errorMsg,
              nPlace, po>>

orderStateVars == <<viewOrders, ohLoading, ohError, initFetch>>

ohLocalVars == <<currentPage, statusFilter, confirmCancelId, errorMessage>>

storeVars == <<roles, orders, notifications, writes>>

cartViewVars == <<location, showConfirm, loading, errorMsg>>

(***************************************************************************)
(* Cart items and carts.                                                   *)
(***************************************************************************)
CartItem(p, q) == [id |-> p, price |-> PriceOf(p), quantity |-> q]

RECURSIVE SeqsOver(_, _)
\* The sequences of length n of pairwise different products.
SeqsOver(S, n) ==
    IF n = 0 THEN {<<>>}
    ELSE UNION {{Append(s, p) : p \in S \ {s[i] : i \in 1..Len(s)}} :
                s \in SeqsOver(S, n - 1)}

\* Every cart the slice can hold: distinct products, quantities 1..MaxQty.
Carts ==
    UNION {UNION {{[i \in 1..n |-> CartItem(ps[i], qs[i])] :
                   qs \in [1..n -> 1..MaxQty]} : ps \in SeqsOver(Products, n)} :
           n \in 0..NumProducts}

(***************************************************************************)
(* placeOrder: the totals (placeOrder.ts 26-35), Array.reduce from the     *)
(* left with initial value 0.                                              *)
(***************************************************************************)
RECURSIVE TotalFrom(_, _, _)
TotalFrom(sum, items, i) ==
    IF i > Len(items) THEN sum
    ELSE TotalFrom(sum + items[i].price * items[i].quantity, items, i + 1)

RECURSIVE PriceSumFrom(_, _, _)
PriceSumFrom(sum, items, i) ==
    IF i > Len(items) THEN sum
    ELSE PriceSumFrom(sum + items[i].price, items, i + 1)

RECURSIVE QuantityFrom(_, _, _)
QuantityFrom(sum, items, i) ==
    IF i > Len(items) THEN sum
    ELSE QuantityFrom(sum + items[i].quantity, items, i + 1)

\* A total that forgets the quantity of each line.
ComputeTotal_PriceOnly(items) == PriceSumFrom(0, items, 1)

ComputeTotal(items) == TotalFrom(0, items, 1)

ComputeTotalQuantity(items) == QuantityFrom(0, items, 1)

\* The line items of the order document (placeOrder.ts 46-52).
OrderItems(items) ==
    [i \in 1..Len(items) |->
        [productId |-> items[i].id, quantity |-> items[i].quantity,
         price |-> items[i].price]]

(***************************************************************************)
(* The store's documents.  A notification's message is kept as the values  *)
(* it is built from: kind, order id, the acting user and, for a new order, *)
(* the item count, the total quantity and the total (0 where the message   *)
(* has no such part).                                                      *)
(***************************************************************************)
Notification(to, kind, orderId, by, nItems, quantity, total) ==
    [userId |-> to, kind |-> kind, orderId |-> orderId, by |-> by,
     items |-> nItems, quantity |-> quantity, total |-> total, read |-> FALSE]

\* createOrderAndNotify: the order document it creates.
NewOrderDoc(id, uid, data) ==
    [id |-> id, userId |-> uid, items |-> data.items, total |-> data.total,
     status |-> "pending", createdAt |-> id]

\* createOrderAndNotify: the notification to the customer.
OrderPlacedNotification(uid, orderId) ==
    Notification(uid, "order_placed", orderId, uid, 0, 0, 0)

\* placeOrder.ts 67-69, 82-88: the notification to one admin.
AdminNewOrderNotification(adminId, call) ==
    Notification(adminId, "new_order", call.orderId, call.uid,
                 Len(call.items), call.totalQuantity, call.total)

\* A query for every user, whatever the role.
AdminIds_AllUsers == DOMAIN roles

\* query(usersRef, where("role", "==", "admin")): the ids of the documents.
AdminIds == {u \in DOMAIN roles : roles[u] = "admin"}

\* What awaiting dispatch(saveCart(...)) does when the remote write fails.
SaveCartFailureThrows == TRUE

(***************************************************************************)
(* The placeOrder call.  created, fanout and save record how the call's    *)
(* store operations ended; cleared and saveAttempted whether clearCart was *)
(* dispatched and saveCart issued; outcome how the promise settled.        *)
(***************************************************************************)
IdleCall ==
    [pc |-> "idle", call |-> 0, uid |-> NoUser, items |-> <<>>, total |-> 0,
     totalQuantity |-> 0, orderId |-> 0, admins |-> {}, created |-> "none",
     fanout |-> "none", save |-> "none", cleared |-> FALSE,
     saveAttempted |-> FALSE, outcome |-> "none"]

\* placeOrder.ts 19-57: the totals, then createOrderAndNotify is awaited.
StartPlaceOrder(n, uid, items) ==
    [IdleCall EXCEPT !.pc = "create", !.call = n, !.uid = uid, !.items = items,
                     !.total = ComputeTotal(items),
                     !.totalQuantity = ComputeTotalQuantity(items)]

PlaceWrites(n) == {w \in writes : w.flow = "place" /\ w.call = n}

\* ProductCard.tsx 174-175: LogoutButton as its useState calls initialise it,
\* with no signOut started.
LogoutButtonIdle ==
    /\ logoutLoading = FALSE
    /\ logoutError = NoError
    /\ logouts = <<>>

\* No review view is mounted: the state of ReviewPage and ProductReviewsList
\* as their useState calls initialise it, and no subscription.
ReviewViewsUnmounted ==
    /\ reviewDocs = <<>>
    /\ subs = EmptyBag
    /\ productId = NoProduct
    /\ reviews = <<>>
    /\ filteredReviews = <<>>
    /\ rvLoading = TRUE
    /\ rvError = NoError
    /\ sortOption = "date"
    /\ minRating = 0
    /\ deletingId = NoReview
    /\ confirmDeleteId = NoReview
    /\ deletes = EmptyBag

TypeOK ==
    /\ user \in {NoUser, CurrentUid}
    /\ roles \in [Users -> Roles]
    /\ cartItems \in Carts
    /\ location \in {"/cart", "/order-success", "/orders"}
    /\ showConfirm \in BOOLEAN /\ loading \in BOOLEAN
    /\ errorMsg \in {NoError, LoginRequiredMsg, PlaceFailedMsg}
    /\ nPlace \in 0..MaxPlacements
    /\ po.pc \in {"idle", "create", "adminQuery", "fanout", "saveCart"}

InitCart ==
    /\ LogoutButtonIdle
    /\ user \in {NoUser, CurrentUid}
    /\ roles \in [Users -> Roles]
    /\ orders = <<>>
    /\ notifications = EmptyBag
    /\ writes = {}
    /\ cartItems \in Carts
    /\ remoteCart = cartItems
    /\ location = "/cart"
    /\ showConfirm = FALSE
    /\ loading = FALSE
    /\ errorMsg = NoError
    /\ nPlace = 0
    /\ po = IdleCall
    /\ viewOrders = <<>>
    /\ ohLoading = FALSE
    /\ ohError = NoError
    /\ initFetch = FALSE
    /\ currentPage = 1
    /\ statusFilter = "all"
    /\ confirmCancelId = NoOrder
    /\ errorMessage = NoError
    /\ cancels = <<>>
    /\ adminUpdated = FALSE
    /\ ReviewViewsUnmounted

(***************************************************************************)
(* The Cart view (part_001).                                               *)
(***************************************************************************)
CartMounted == location = "/cart"

\* part_001 96-107: the non-empty branch holds every control but Back to Home.
CartListRendered == CartMounted /\ Len(cartItems) > 0

\* part_001 220-224: the alert is inside the non-empty branch.
CartErrorDisplayed == CartListRendered /\ errorMsg # NoError

\* part_001 40-49
HandlePlaceOrderClick ==
    /\ CartListRendered /\ ~showConfirm /\ ~loading
    /\ IF user = NoUser
       THEN errorMsg' = LoginRequiredMsg /\ UNCHANGED showConfirm
       ELSE errorMsg' = NoError /\ showConfirm' = TRUE
    /\ UNCHANGED <<logoutVars, reviewVars, ohVars, user, storeVars, cartItems, remoteCart, location, loading,
                   nPlace, po>>

\* A Yes button that stays enabled while a placement is loading.
HandleConfirmOrder_NotDisabled ==
    /\ CartListRendered /\ showConfirm
    /\ user # NoUser
    /\ nPlace < MaxPlacements
    /\ loading' = TRUE
    /\ errorMsg' = NoError
    /\ nPlace' = nPlace + 1
    /\ po' = StartPlaceOrder(nPlace + 1, user, cartItems)
    /\ UNCHANGED <<logoutVars, reviewVars, ohVars, user, storeVars, cartItems, remoteCart, location, showConfirm>>

\* part_001 52-58 and placeOrder.ts 19-57, up to the await of the create.
HandleConfirmOrder ==
    /\ CartListRendered /\ showConfirm /\ ~loading
    /\ user # NoUser
    /\ nPlace < MaxPlacements
    /\ loading' = TRUE
    /\ errorMsg' = NoError
    /\ nPlace' = nPlace + 1
    /\ po' = StartPlaceOrder(nPlace + 1, user, cartItems)
    /\ UNCHANGED <<logoutVars, reviewVars, ohVars, user, storeVars, cartItems, remoteCart, location, showConfirm>>

\* part_001 74-77
HandleCancelOrder ==
    /\ CartListRendered /\ showConfirm /\ ~loading
    /\ showConfirm' = FALSE
    /\ errorMsg' = NoError
    /\ UNCHANGED <<logoutVars, reviewVars, ohVars, user, storeVars, cartItems, remoteCart, location, loading,
                   nPlace, po>>

\* part_001 62-70: placeOrder rejected; catch, then finally.
ConfirmOrderFailed ==
    /\ errorMsg' = PlaceFailedMsg
    /\ loading' = FALSE
    /\ showConfirm' = FALSE
    /\ UNCHANGED location

\* part_001 60-61, 66-70: placeOrder resolved; navigate, then finally.
ConfirmOrderSucceeded ==
    /\ location' = "/order-success"
    /\ loading' = FALSE
    /\ showConfirm' = FALSE
    /\ UNCHANGED errorMsg

\* The reducers of the cart slice behind the +, - and Remove buttons.
RemoveAt(items, i) == SubSeq(items, 1, i - 1) \o SubSeq(items, i + 1, Len(items))

\* part_001 145-150
IncreaseQuantity(i) ==
    /\ CartListRendered /\ i \in 1..Len(cartItems)
    /\ cartItems[i].quantity < MaxQty
    /\ cartItems' = [cartItems EXCEPT ![i].quantity = @ + 1]
    /\ UNCHANGED <<logoutVars, reviewVars, ohVars, user, storeVars, remoteCart, cartViewVars, nPlace, po>>

\* part_001 80-88, 137-142
HandleDecrease(i) ==
    /\ CartListRendered /\ i \in 1..Len(cartItems)
    /\ cartItems' = IF cartItems[i].quantity <= 1
                    THEN RemoveAt(cartItems, i)
                    ELSE [cartItems EXCEPT ![i].quantity = @ - 1]
    /\ UNCHANGED <<logoutVars, reviewVars, ohVars, user, storeVars, remoteCart, cartViewVars, nPlace, po>>

\* part_001 154-159
RemoveFromCart(i) ==
    /\ CartListRendered /\ i \in 1..Len(cartItems)
    /\ cartItems' = RemoveAt(cartItems, i)
    /\ UNCHANGED <<logoutVars, reviewVars, ohVars, user, storeVars, remoteCart, cartViewVars, nPlace, po>>

(***************************************************************************)
(* placeOrder (placeOrder.ts), one action per settled await.               *)
(***************************************************************************)
\* placeOrder.ts 93-102: the fan-out stage is over (completed, or caught and
\* logged); clearCart is dispatched and saveCart is dispatched and awaited.
ClearCartAndSave(result) ==
    /\ cartItems' = <<>>
    /\ po' = [po EXCEPT !.pc = "saveCart", !.fanout = result, !.cleared = TRUE,
                        !.saveAttempted = TRUE]

\* placeOrder.ts 44-57: createOrderAndNotify resolved with the order's id.
CreateOrderOk ==
    /\ po.pc = "create"
    /\ LET id == Len(orders) + 1 IN
        /\ orders' = Append(orders,
                NewOrderDoc(id, po.uid,
                            [items |-> OrderItems(po.items), total |-> po.total]))
        /\ notifications' =
                notifications (+) SetToBag({OrderPlacedNotification(po.uid, id)})
        /\ po' = [po EXCEPT !.pc = "adminQuery", !.orderId = id, !.created = "ok"]
    /\ UNCHANGED <<logoutVars, reviewVars, ohVars, user, roles, writes, cartItems, remoteCart, cartViewVars, nPlace>>

\* A failed create after which the cart is cleared all the same.
CreateOrderFail_ClearsCart ==
    /\ po.pc = "create"
    /\ cartItems' = <<>>
    /\ po' = [po EXCEPT !.pc = "idle", !.created = "failed", !.cleared = TRUE,
                        !.outcome = "rejected"]
    /\ ConfirmOrderFailed
    /\ UNCHANGED <<logoutVars, reviewVars, ohVars, user, storeVars, remoteCart, nPlace>>

\* placeOrder.ts 44, 106-108: createOrderAndNotify rejected; placeOrder logs
\* and rethrows, handleConfirmOrder catches.
CreateOrderFail ==
    /\ po.pc = "create"
    /\ po' = [po EXCEPT !.pc = "idle", !.created = "failed", !.outcome = "rejected"]
    /\ ConfirmOrderFailed
    /\ UNCHANGED <<logoutVars, reviewVars, ohVars, user, storeVars, cartItems, remoteCart, nPlace>>

\* An admin query after which the cart is cleared without awaiting the batch.
AdminQueryOk_ClearsEarly ==
    /\ po.pc = "adminQuery"
    /\ writes' = writes \cup
            {[flow |-> "place", call |-> po.call,
              doc |-> AdminNewOrderNotification(a, po)] : a \in AdminIds}
    /\ cartItems' = <<>>
    /\ po' = [po EXCEPT !.pc = "saveCart", !.admins = AdminIds, !.cleared = TRUE,
                        !.saveAttempted = TRUE]
    /\ UNCHANGED <<logoutVars, reviewVars, ohVars, user, roles, orders, notifications,
                   remoteCart, cartViewVars, nPlace>>

\* placeOrder.ts 78-92: the admin query resolved; one addDoc per admin document
\* is started and Promise.all of them awaited (it resolves at once for none).
AdminQueryOk ==
    /\ po.pc = "adminQuery"
    /\ LET admins == AdminIds
           call == [po EXCEPT !.admins = admins]
       IN IF admins = {}
          THEN /\ cartItems' = <<>>
               /\ po' = [call EXCEPT !.pc = "saveCart", !.fanout = "ok",
                                     !.cleared = TRUE, !.saveAttempted = TRUE]
               /\ UNCHANGED writes
          ELSE /\ writes' = writes \cup
                    {[flow |-> "place", call |-> po.call,
                      doc |-> AdminNewOrderNotification(a, po)] : a \in admins}
               /\ po' = [call EXCEPT !.pc = "fanout"]
               /\ UNCHANGED cartItems
    /\ UNCHANGED <<logoutVars, reviewVars, ohVars, user, roles, orders, notifications, remoteCart, cartViewVars,
                   nPlace>>

\* placeOrder.ts 78, 93-102: the admin query rejected; caught and logged.
AdminQueryFail ==
    /\ po.pc = "adminQuery"
    /\ ClearCartAndSave("failed")
    /\ UNCHANGED <<logoutVars, reviewVars, ohVars, user, storeVars, remoteCart, cartViewVars, nPlace>>

\* placeOrder.ts 82-92: one admin notification was written.  Promise.all
\* resolves when it was the last one of a batch none of which has failed.
PlaceNotifWriteOk(w) ==
    /\ w \in writes /\ w.flow = "place"
    /\ writes' = writes \ {w}
    /\ notifications' = notifications (+) SetToBag({w.doc})
    /\ IF po.pc = "fanout" /\ po.call = w.call /\ PlaceWrites(w.call) = {w}
       THEN ClearCartAndSave("ok")
       ELSE UNCHANGED <<cartItems, po>>
    /\ UNCHANGED <<logoutVars, reviewVars, ohVars, user, roles, orders, remoteCart, cartViewVars, nPlace>>

\* A failed admin notification that makes placeOrder reject.
PlaceNotifWriteFail_Rethrows(w) ==
    /\ w \in writes /\ w.flow = "place"
    /\ writes' = writes \ {w}
    /\ IF po.pc = "fanout" /\ po.call = w.call
       THEN /\ po' = [po EXCEPT !.pc = "idle", !.fanout = "failed",
                                !.outcome = "rejected"]
            /\ ConfirmOrderFailed
       ELSE UNCHANGED <<po, cartViewVars>>
    /\ UNCHANGED <<logoutVars, reviewVars, ohVars, user, roles, orders, notifications, cartItems, remoteCart, nPlace>>

\* placeOrder.ts 82-96: one admin notification write failed.  Promise.all
\* rejects at the first failure, the catch logs it; the other writes of the
\* batch stay in flight.
PlaceNotifWriteFail(w) ==
    /\ w \in writes /\ w.flow = "place"
    /\ writes' = writes \ {w}
    /\ IF po.pc = "fanout" /\ po.call = w.call
       THEN ClearCartAndSave("failed")
       ELSE UNCHANGED <<cartItems, po>>
    /\ UNCHANGED <<logoutVars, reviewVars, ohVars, user, roles, orders, notifications, remoteCart, cartViewVars,
                   nPlace>>

\* placeOrder.ts 102-105, part_001 60-61, 66-70: the empty cart was saved.
SaveCartOk ==
    /\ po.pc = "saveCart"
    /\ remoteCart' = <<>>
    /\ po' = [po EXCEPT !.pc = "idle", !.save = "ok", !.outcome = "resolved"]
    /\ ConfirmOrderSucceeded
    /\ UNCHANGED <<logoutVars, reviewVars, ohVars, user, storeVars, cartItems, nPlace>>

\* A failed remote clear that is not reported: the view navigates on.
SaveCartFail_Swallowed ==
    /\ po.pc = "saveCart"
    /\ po' = [po EXCEPT !.pc = "idle", !.save = "failed", !.outcome = "resolved"]
    /\ ConfirmOrderSucceeded
    /\ UNCHANGED <<logoutVars, reviewVars, ohVars, user, storeVars, cartItems, remoteCart, nPlace>>

\* placeOrder.ts 102, 106-108, part_001 62-70: the remote write failed.
SaveCartFail ==
    /\ po.pc = "saveCart"
    /\ IF SaveCartFailureThrows
       THEN /\ po' = [po EXCEPT !.pc = "idle", !.save = "failed",
                                !.outcome = "rejected"]
            /\ ConfirmOrderFailed
       ELSE /\ po' = [po EXCEPT !.pc = "idle", !.save = "failed",
                                !.outcome = "resolved"]
            /\ ConfirmOrderSucceeded
    /\ UNCHANGED <<logoutVars, reviewVars, ohVars, user, storeVars, cartItems, remoteCart, nPlace>>

NextCart ==
    \/ HandlePlaceOrderClick
    \/ HandleConfirmOrder
    \/ HandleCancelOrder
    \/ CreateOrderOk
    \/ CreateOrderFail
    \/ AdminQueryOk
    \/ AdminQueryFail
    \/ \E w \in writes : PlaceNotifWriteOk(w)
    \/ \E w \in writes : PlaceNotifWriteFail(w)
    \/ SaveCartOk
    \/ SaveCartFail

\* The customer's edits of the cart, enabled also while an order is placed.
EditCart ==
    \/ \E i \in 1..NumProducts : IncreaseQuantity(i)
    \/ \E i \in 1..NumProducts : HandleDecrease(i)
    \/ \E i \in 1..NumProducts : RemoveFromCart(i)

NextCartEdit == NextCart \/ EditCart

SpecCart == InitCart /\ [][NextCart]_vars

SpecCartEdit == InitCart /\ [][NextCartEdit]_vars

(***************************************************************************)
(* Properties of placeOrder and the Cart view, checked under SpecCart.     *)
(***************************************************************************)
RECURSIVE LineSum(_)
LineSum(items) ==
    IF items = <<>> THEN 0
    ELSE Head(items).price * Head(items).quantity + LineSum(Tail(items))

RECURSIVE QuantitySum(_)
QuantitySum(items) ==
    IF items = <<>> THEN 0 ELSE Head(items).quantity + QuantitySum(Tail(items))

ExampleCart == <<CartItem(2, 2), CartItem(1, 1)>>

NewOrderDocs ==
    {n \in BagToSet(notifications) : n.kind = "new_order"}
        \cup {w.doc : w \in {x \in writes : x.flow = "place"}}

\* C1: for every non-empty cart, placeOrder passes to the order create a total
\* equal to the sum of price x quantity over the items and puts in the admin
\* message a totalQuantity equal to the sum of the quantities; the items
\* [{price 10, quantity 2}, {price 5, quantity 1}] give 25 and 3.
C1_TotalsAreSums ==
    /\ po.call > 0 =>
        /\ po.items # <<>>
        /\ po.total = LineSum(po.items)
        /\ po.totalQuantity = QuantitySum(po.items)
        /\ po.items = ExampleCart => po.total = 25 /\ po.totalQuantity = 3
    /\ \A k \in 1..Len(orders) :
        /\ orders[k].items # <<>>
        /\ orders[k].total = LineSum(orders[k].items)
    /\ \A n \in NewOrderDocs :
        \E k \in 1..Len(orders) :
            /\ orders[k].id = n.orderId
            /\ n.total = LineSum(orders[k].items)
            /\ n.quantity = QuantitySum(orders[k].items)
            /\ n.items = Len(orders[k].items)

C1_Witness ==
    /\ \E k \in 1..Len(orders) :
        orders[k].items = OrderItems(ExampleCart) /\ orders[k].total = 25
    /\ \E n \in BagToSet(notifications) :
        n.kind = "new_order" /\ n.quantity = 3 /\ n.total = 25

\* C2: if the order create fails, placeOrder rejects and the cart is unchanged,
\* with no clearCart dispatched and no saveCart attempted; a local or remote
\* cart clear is always preceded by the successful create of the same call.
C2_ClearOnlyAfterCreate ==
    /\ [](po.created = "failed" =>
            /\ po.pc = "idle" /\ po.outcome = "rejected"
            /\ ~po.cleared /\ ~po.saveAttempted)
    /\ [][(po.pc = "create" /\ po'.created = "failed") =>
            (cartItems' = cartItems /\ remoteCart' = remoteCart)]_vars
    /\ [][(\/ po'.cleared /\ ~po.cleared
           \/ po'.saveAttempted /\ ~po.saveAttempted
           \/ remoteCart' # remoteCart
           \/ Len(cartItems) > 1 /\ cartItems' = <<>>) =>
            (po.created = "ok" /\ po'.call = po.call)]_vars

C2_Witness ==
    /\ po.created = "failed" /\ po.outcome = "rejected"
    /\ cartItems = po.items /\ remoteCart # <<>>
    /\ errorMsg = PlaceFailedMsg

\* C3: if the create succeeds and the admin fan-out fails (the query, or any
\* notification write), placeOrder still dispatches clearCart and still writes
\* the empty remote cart, and resolves when that write succeeds.
C3_FanoutFailureDoesNotBlock ==
    (po.created = "ok" /\ po.fanout = "failed") =>
        /\ po.cleared /\ po.saveAttempted /\ cartItems = <<>>
        /\ po.pc \in {"saveCart", "idle"}
        /\ po.save = "ok" =>
            /\ po.outcome = "resolved" /\ remoteCart = <<>>
            /\ location = "/order-success" /\ errorMsg = NoError

C3_Witness ==
    /\ po.created = "ok" /\ po.fanout = "failed" /\ po.admins # {}
    /\ po.save = "ok" /\ po.outcome = "resolved"

\* C5: if the create succeeds and the remote cart clear fails, placeOrder
\* rejects and the Cart view reports the placement as failed (error message
\* set, no navigation to /order-success), while the order exists in the store
\* and the local cart has been cleared.
C5_RemoteClearFailureRejects ==
    po.save = "failed" =>
        /\ po.pc = "idle" /\ po.outcome = "rejected"
        /\ errorMsg = PlaceFailedMsg /\ location = "/cart" /\ ~loading
        /\ po.created = "ok"
        /\ \E k \in 1..Len(orders) :
            orders[k].id = po.orderId /\ orders[k].items = OrderItems(po.items)
        /\ po.cleared /\ cartItems = <<>>

C5_Witness == po.save = "failed" /\ Len(orders) = 1 /\ remoteCart # <<>>

\* C6: whenever a durable write of a placement fails (order create or remote
\* cart clear), the Cart view ends in a state in which an error message is
\* displayed to the user.
C6_DurableFailureDisplayed ==
    [][(/\ po.outcome # "rejected" /\ po'.outcome = "rejected"
        /\ po'.created = "failed" \/ po'.save = "failed") =>
            CartErrorDisplayed']_vars

\* C7: the admin fan-out of a placeOrder call creates at most one notification
\* per user whose role is admin (exactly one when no write fails), each
\* addressed to that admin with read = false, and none for any other user.
C7_OnePerAdmin ==
    /\ \A n \in BagToSet(notifications) : n.kind = "new_order" =>
        /\ roles[n.userId] = "admin"
        /\ n.read = FALSE
        /\ CopiesIn(n, notifications) = 1
        /\ \E k \in 1..Len(orders) : orders[k].id = n.orderId
        /\ \A m \in BagToSet(notifications) :
            (m.kind = "new_order" /\ m.userId = n.userId
                /\ m.orderId = n.orderId) => m = n
    /\ po.fanout = "ok" =>
        \A a \in Users : roles[a] = "admin" =>
            CopiesIn(AdminNewOrderNotification(a, po), notifications) = 1

C7_Witness ==
    /\ po.fanout = "ok"
    /\ Cardinality({a \in Users : roles[a] = "admin"}) = 2
    /\ Cardinality({n \in BagToSet(notifications) : n.kind = "new_order"}) = 2

(***************************************************************************)
(* The OrderHistory view (OrderHistory.tsx).                               *)
(***************************************************************************)
ORDERS_PER_PAGE == 9

CancelFailedMsg == "Failed to cancel the order. Please try again."

LoadFailedMsg == "Failed to load orders"

\* The statuses an order document can hold; "Pending" stands for a status
\* written with capitals.
StatusValues ==
    {"pending", "Pending", "in process", "processing", "shipped", "delivered",
     "cancelled", "refunded"}

\* String.prototype.toLowerCase on the status values.
ToLowerCase(st) == IF st = "Pending" THEN "pending" ELSE st

\* An order document of the store when the view is opened: as created, with
\* status "pending"; every other status comes from a later update.
StoredOrder(id, uid, st) ==
    [id |-> id, userId |-> uid,
     items |-> <<[productId |-> 1, quantity |-> 1, price |-> PriceOf(1)]>>,
     total |-> PriceOf(1), status |-> st, createdAt |-> id]

\* fetchOrdersByUser: the orders of the store owned by uid.
OrdersByUser(uid) == SelectSeq(orders, LAMBDA o : o.userId = uid)

\* OrderHistory.tsx 65-68
FilteredOrders ==
    IF statusFilter = "all" THEN viewOrders
    ELSE SelectSeq(viewOrders, LAMBDA o : o.status = statusFilter)

\* OrderHistory.tsx 71: Math.ceil(filteredOrders.length / ORDERS_PER_PAGE)
TotalPages == (Len(FilteredOrders) + ORDERS_PER_PAGE - 1) \div ORDERS_PER_PAGE

\* A slice that starts one order late.
OrdersOnPage_StartsLate(page) ==
    LET startIndex == (page - 1) * ORDERS_PER_PAGE + 1
        n == Len(FilteredOrders)
        from == IF startIndex > n THEN n ELSE startIndex
        to == IF startIndex + ORDERS_PER_PAGE > n THEN n
              ELSE startIndex + ORDERS_PER_PAGE
    IN SubSeq(FilteredOrders, from + 1, to)

\* OrderHistory.tsx 74-80: Array.slice(startIndex, startIndex + ORDERS_PER_PAGE)
\* for the given page.
OrdersOnPage(page) ==
    LET startIndex == (page - 1) * ORDERS_PER_PAGE
        n == Len(FilteredOrders)
        from == IF startIndex > n THEN n ELSE startIndex
        to == IF startIndex + ORDERS_PER_PAGE > n THEN n
              ELSE startIndex + ORDERS_PER_PAGE
    IN SubSeq(FilteredOrders, from + 1, to)

\* OrderHistory.tsx 77-80
CurrentOrders == OrdersOnPage(currentPage)

\* OrderHistory.tsx 127-149, 197-202: the rows of the current page are rendered
\* unless the spinner or the load error replaces the page.
RenderedRows ==
    IF ohLoading \/ ohError # NoError THEN {}
    ELSE {CurrentOrders[k] : k \in 1..Len(CurrentOrders)}

\* A cancel control offered also for the status "processing".
CancelOffered_AlsoProcessing(order) ==
    LET status == ToLowerCase(order.status)
    IN status = "pending" \/ status = "in process" \/ status = "processing"

\* OrderHistory.tsx 211, 264
CancelOffered(order) ==
    LET status == ToLowerCase(order.status)
    IN status = "pending" \/ status = "in process"

\* OrderHistory.tsx 267-311: the confirm prompt (Yes / No) of a row.
ConfirmPromptShown(order) ==
    order \in RenderedRows /\ CancelOffered(order) /\ confirmCancelId = order.id

\* OrderHistory.tsx 312-320: the initial Cancel button of a row.
CancelButtonShown(order) ==
    order \in RenderedRows /\ CancelOffered(order) /\ confirmCancelId # order.id

\* OrderHistory.tsx 306-310
CancelErrorShown(order) == ConfirmPromptShown(order) /\ errorMessage # NoError

\* cancelOrder's notifications (OrderHistory.tsx 95-100, 109-114).
OwnerCancelNotification(orderId, userId) ==
    Notification(userId, "cancel_owner", orderId, userId, 0, 0, 0)

AdminCancelNotification(adminId, orderId, userId) ==
    Notification(adminId, "cancel_admin", orderId, userId, 0, 0, 0)

\* One run of the confirm handler (OrderHistory.tsx 272-290): updated tells
\* whether its updateDoc succeeded, outcome how the handler ended ("ok": the
\* try block completed, "failed": the catch ran).
NewCancel(order, uid) ==
    [orderId |-> order.id, userId |-> uid, pc |-> "update", updated |-> FALSE,
     outcome |-> "none"]

CancelWrites(c) == {w \in writes : w.flow = "cancel" /\ w.call = c}

StoreIndex(orderId) == CHOOSE k \in 1..Len(orders) : orders[k].id = orderId

InitOH ==
    /\ LogoutButtonIdle
    /\ user = CurrentUid
    /\ roles \in {[u \in Users |-> IF u = CurrentUid THEN "customer" ELSE r] :
                   r \in Roles}
    /\ orders = [k \in 1..NumOrders |-> StoredOrder(k, CurrentUid, "pending")]
    /\ notifications = EmptyBag
    /\ writes = {}
    /\ cartItems = <<>> /\ remoteCart = <<>>
    /\ location = "/orders"
    /\ showConfirm = FALSE /\ loading = FALSE /\ errorMsg = NoError
    /\ nPlace = 0 /\ po = IdleCall
    /\ viewOrders = <<>>
    /\ ohLoading = TRUE
    /\ ohError = NoError
    /\ initFetch = TRUE
    /\ currentPage = 1
    /\ statusFilter = "all"
    /\ confirmCancelId = NoOrder
    /\ errorMessage = NoError
    /\ cancels = <<>>
    /\ adminUpdated = FALSE
    /\ ReviewViewsUnmounted

\* OrderHistory.tsx 58-62: the fetch dispatched on mount is fulfilled.
FetchOrdersOk ==
    /\ initFetch
    /\ initFetch' = FALSE
    /\ viewOrders' = OrdersByUser(user)
    /\ ohLoading' = FALSE
    /\ UNCHANGED <<logoutVars, reviewVars, cartVars, user, storeVars, ohError, ohLocalVars, cancels,
                   adminUpdated>>

\* OrderHistory.tsx 58-62, 137-149: the fetch dispatched on mount is rejected.
FetchOrdersFail ==
    /\ initFetch
    /\ initFetch' = FALSE
    /\ ohError' = LoadFailedMsg
    /\ ohLoading' = FALSE
    /\ UNCHANGED <<logoutVars, reviewVars, cartVars, user, storeVars, viewOrders, ohLocalVars, cancels,
                   adminUpdated>>

\* OrderHistory.tsx 314-319
ClickCancel(order) ==
    /\ CancelButtonShown(order)
    /\ confirmCancelId' = order.id
    /\ UNCHANGED <<logoutVars, reviewVars, cartVars, user, storeVars, orderStateVars, currentPage,
                   statusFilter, errorMessage, cancels, adminUpdated>>

\* OrderHistory.tsx 294-303
ClickNo(order) ==
    /\ ConfirmPromptShown(order)
    /\ confirmCancelId' = NoOrder
    /\ errorMessage' = NoError
    /\ UNCHANGED <<logoutVars, reviewVars, cartVars, user, storeVars, orderStateVars, currentPage,
                   statusFilter, cancels, adminUpdated>>

\* OrderHistory.tsx 270-276, 83-89: Yes; cancelOrder runs up to the await of
\* updateDoc.  The button stays enabled while earlier runs are in flight.
ClickYes(order) ==
    /\ ConfirmPromptShown(order)
    /\ Len(cancels) < MaxCancelCalls
    /\ cancels' = IF user = NoUser THEN cancels
                  ELSE Append(cancels, NewCancel(order, user))
    /\ UNCHANGED <<logoutVars, reviewVars, cartVars, user, storeVars, orderStateVars, ohLocalVars,
                   adminUpdated>>

\* OrderHistory.tsx 119-123, 284-289: cancelOrder rethrows; the handler's
\* catch sets the error message.
CancelFailed(c) ==
    /\ cancels' = [cancels EXCEPT ![c].pc = "done", ![c].outcome = "failed"]
    /\ errorMessage' = CancelFailedMsg
    /\ UNCHANGED <<orderStateVars, currentPage, statusFilter, confirmCancelId>>

\* OrderHistory.tsx 118, 276-279: cancelOrder resolved; the refetch is
\* dispatched and awaited (the pending fetch shows the spinner).
StartRefetch(c) ==
    /\ cancels' = [cancels EXCEPT ![c].pc = "refetch"]
    /\ ohLoading' = TRUE
    /\ ohError' = NoError
    /\ UNCHANGED <<viewOrders, initFetch, ohLocalVars>>

\* An update that writes the whole document again, with its total reset.
UpdateOk_RewritesDocument(c) ==
    /\ c \in 1..Len(cancels) /\ cancels[c].pc = "update"
    /\ LET k == StoreIndex(cancels[c].orderId) IN
        /\ orders' = [orders EXCEPT ![k].status = "cancelled", ![k].total = 0]
        /\ cancels' = [cancels EXCEPT ![c].pc = "ownerNotif", ![c].updated = TRUE]
    /\ UNCHANGED <<logoutVars, reviewVars, cartVars, user, roles, notifications, writes, orderStateVars,
                   ohLocalVars, adminUpdated>>

\* OrderHistory.tsx 89: updateDoc(orderRef, {status: "cancelled"}) succeeded;
\* the owner's notification is added next (95-100).
UpdateOk(c) ==
    /\ c \in 1..Len(cancels) /\ cancels[c].pc = "update"
    /\ LET k == StoreIndex(cancels[c].orderId) IN
        /\ orders' = [orders EXCEPT ![k].status = "cancelled"]
        /\ cancels' = [cancels EXCEPT ![c].pc = "ownerNotif", ![c].updated = TRUE]
    /\ UNCHANGED <<logoutVars, reviewVars, cartVars, user, roles, notifications, writes, orderStateVars,
                   ohLocalVars, adminUpdated>>

\* OrderHistory.tsx 89, 119-123
UpdateFail(c) ==
    /\ c \in 1..Len(cancels) /\ cancels[c].pc = "update"
    /\ CancelFailed(c)
    /\ UNCHANGED <<logoutVars, reviewVars, cartVars, user, storeVars, adminUpdated>>

\* OrderHistory.tsx 95-105: the owner's notification was written; the admin
\* query is awaited next.
OwnerNotifOk(c) ==
    /\ c \in 1..Len(cancels) /\ cancels[c].pc = "ownerNotif"
    /\ notifications' = notifications (+)
            SetToBag({OwnerCancelNotification(cancels[c].orderId, cancels[c].userId)})
    /\ cancels' = [cancels EXCEPT ![c].pc = "adminQuery"]
    /\ UNCHANGED <<logoutVars, reviewVars, cartVars, user, roles, orders, writes, orderStateVars,
                   ohLocalVars, adminUpdated>>

\* OrderHistory.tsx 95-100, 119-123
OwnerNotifFail(c) ==
    /\ c \in 1..Len(cancels) /\ cancels[c].pc = "ownerNotif"
    /\ CancelFailed(c)
    /\ UNCHANGED <<logoutVars, reviewVars, cartVars, user, storeVars, adminUpdated>>

\* OrderHistory.tsx 105-118: the admin query resolved; one addDoc per admin
\* is started and Promise.all of them awaited.
CancelAdminQueryOk(c) ==
    /\ c \in 1..Len(cancels) /\ cancels[c].pc = "adminQuery"
    /\ IF AdminIds = {}
       THEN /\ StartRefetch(c)
            /\ UNCHANGED writes
       ELSE /\ writes' = writes \cup
                    {[flow |-> "cancel", call |-> c,
                      doc |-> AdminCancelNotification(a, cancels[c].orderId,
                                                      cancels[c].userId)] :
                     a \in AdminIds}
            /\ cancels' = [cancels EXCEPT ![c].pc = "fanout"]
            /\ UNCHANGED <<orderStateVars, ohLocalVars>>
    /\ UNCHANGED <<logoutVars, reviewVars, cartVars, user, roles, orders, notifications, adminUpdated>>

\* OrderHistory.tsx 105, 119-123
CancelAdminQueryFail(c) ==
    /\ c \in 1..Len(cancels) /\ cancels[c].pc = "adminQuery"
    /\ CancelFailed(c)
    /\ UNCHANGED <<logoutVars, reviewVars, cartVars, user, storeVars, adminUpdated>>

\* OrderHistory.tsx 108-118: one admin notification was written.
CancelNotifWriteOk(w) ==
    /\ w \in writes /\ w.flow = "cancel"
    /\ writes' = writes \ {w}
    /\ notifications' = notifications (+) SetToBag({w.doc})
    /\ IF cancels[w.call].pc = "fanout" /\ CancelWrites(w.call) = {w}
       THEN StartRefetch(w.call)
       ELSE UNCHANGED <<cancels, orderStateVars, ohLocalVars>>
    /\ UNCHANGED <<logoutVars, reviewVars, cartVars, user, roles, orders, adminUpdated>>

\* OrderHistory.tsx 108-123: one admin notification write failed; Promise.all
\* rejects at the first failure and the other writes stay in flight.
CancelNotifWriteFail(w) ==
    /\ w \in writes /\ w.flow = "cancel"
    /\ writes' = writes \ {w}
    /\ IF cancels[w.call].pc = "fanout"
       THEN CancelFailed(w.call)
       ELSE UNCHANGED <<cancels, orderStateVars, ohLocalVars>>
    /\ UNCHANGED <<logoutVars, reviewVars, cartVars, user, roles, orders, notifications, adminUpdated>>

\* OrderHistory.tsx 279-283: the refetch was fulfilled; the prompt is closed.
RefetchOk(c) ==
    /\ c \in 1..Len(cancels) /\ cancels[c].pc = "refetch"
    /\ viewOrders' = OrdersByUser(user)
    /\ ohLoading' = FALSE
    /\ confirmCancelId' = NoOrder
    /\ errorMessage' = NoError
    /\ cancels' = [cancels EXCEPT ![c].pc = "done", ![c].outcome = "ok"]
    /\ UNCHANGED <<logoutVars, reviewVars, cartVars, user, storeVars, ohError, initFetch, currentPage,
                   statusFilter, adminUpdated>>

\* OrderHistory.tsx 279-283, 137-149: the refetch was rejected (the thunk
\* records the error, the awaited dispatch resolves); the prompt is closed.
RefetchFail(c) ==
    /\ c \in 1..Len(cancels) /\ cancels[c].pc = "refetch"
    /\ ohError' = LoadFailedMsg
    /\ ohLoading' = FALSE
    /\ confirmCancelId' = NoOrder
    /\ errorMessage' = NoError
    /\ cancels' = [cancels EXCEPT ![c].pc = "done", ![c].outcome = "ok"]
    /\ UNCHANGED <<logoutVars, reviewVars, cartVars, user, storeVars, viewOrders, initFetch, currentPage,
                   statusFilter, adminUpdated>>

\* Another client (an admin) sets the status of an order document, once.
AdminUpdateStatus(k, st) ==
    /\ ~adminUpdated
    /\ k \in 1..Len(orders) /\ st \in StatusValues /\ st # orders[k].status
    /\ orders' = [orders EXCEPT ![k].status = st]
    /\ adminUpdated' = TRUE
    /\ UNCHANGED <<logoutVars, reviewVars, cartVars, user, roles, notifications, writes, orderStateVars,
                   ohLocalVars, cancels>>

NextOH ==
    \/ FetchOrdersOk
    \/ FetchOrdersFail
    \/ \E o \in RenderedRows : ClickCancel(o)
    \/ \E o \in RenderedRows : ClickNo(o)
    \/ \E o \in RenderedRows : ClickYes(o)
    \/ \E c \in 1..MaxCancelCalls : UpdateOk(c)
    \/ \E c \in 1..MaxCancelCalls : UpdateFail(c)
    \/ \E c \in 1..MaxCancelCalls : OwnerNotifOk(c)
    \/ \E c \in 1..MaxCancelCalls : OwnerNotifFail(c)
    \/ \E c \in 1..MaxCancelCalls : CancelAdminQueryOk(c)
    \/ \E c \in 1..MaxCancelCalls : CancelAdminQueryFail(c)
    \/ \E w \in writes : CancelNotifWriteOk(w)
    \/ \E w \in writes : CancelNotifWriteFail(w)
    \/ \E c \in 1..MaxCancelCalls : RefetchOk(c)
    \/ \E c \in 1..MaxCancelCalls : RefetchFail(c)
    \/ \E k \in 1..NumOrders, st \in StatusValues : AdminUpdateStatus(k, st)

SpecOH == InitOH /\ [][NextOH]_vars

(***************************************************************************)
(* Properties of OrderHistory and cancelOrder, checked under SpecOH.       *)
(***************************************************************************)
CancellableStatuses == {"pending", "in process"}

CallsFor(orderId) == {c \in 1..Len(cancels) : cancels[c].orderId = orderId}

\* C4: when the status update to 'cancelled' succeeds and a notification step
\* fails (the owner's notification, the admin query or an admin notification),
\* the cancellation is still reported as successful: no 'Failed to cancel the
\* order' message, the list is refetched and the prompt is closed.
C4_NotificationFailureStillSuccess ==
    \A c \in 1..Len(cancels) : cancels[c].updated => cancels[c].outcome # "failed"

\* C8: after any sequence of user actions, each order that ends up cancelled by
\* this view has exactly one cancellation notification addressed to its owner
\* and at most one per admin.
C8_OneCancellationNotification ==
    \A k \in 1..Len(orders) :
        LET id == orders[k].id
            owner == orders[k].userId
        IN (/\ orders[k].status = "cancelled"
            /\ \E c \in CallsFor(id) : cancels[c].updated
            /\ \A c \in CallsFor(id) : cancels[c].pc = "done" /\ CancelWrites(c) = {})
           => /\ CopiesIn(OwnerCancelNotification(id, owner), notifications) = 1
              /\ \A a \in Users :
                    CopiesIn(AdminCancelNotification(a, id, owner), notifications) <= 1

\* C9: the cancel control of a row (the Cancel button or the confirm prompt) is
\* rendered if and only if the row's status, lower-cased, is 'pending' or
\* 'in process'; for processing, shipped, delivered, cancelled and refunded no
\* cancel action is offered, and none is ever taken.
C9_CancelOfferedIffCancellable ==
    /\ [](\A order \in RenderedRows :
            /\ (CancelButtonShown(order) \/ ConfirmPromptShown(order))
                    <=> ToLowerCase(order.status) \in CancellableStatuses
            /\ order.status \in {"processing", "shipped", "delivered", "cancelled",
                                 "refunded"}
                    => ~CancelButtonShown(order) /\ ~ConfirmPromptShown(order))
    /\ [](\A k \in 1..Len(viewOrders) : viewOrders[k] \notin RenderedRows =>
            ~CancelButtonShown(viewOrders[k]) /\ ~ConfirmPromptShown(viewOrders[k]))
    /\ [][(\/ Len(cancels') > Len(cancels)
           \/ confirmCancelId' \notin {confirmCancelId, NoOrder}) =>
            \E order \in RenderedRows :
                /\ order.id = confirmCancelId'
                /\ Len(cancels') > Len(cancels) =>
                        cancels'[Len(cancels')].orderId = order.id
                /\ ToLowerCase(order.status) \in CancellableStatuses]_vars

C9_Witness ==
    \E shown, hidden \in RenderedRows :
        /\ shown.status = "Pending" /\ ConfirmPromptShown(shown)
        /\ hidden.status = "cancelled"
        /\ ~CancelButtonShown(hidden) /\ ~ConfirmPromptShown(hidden)

\* C10: the cancel workflow only ever changes a stored status from 'pending' or
\* 'in process' to 'cancelled': in every interleaving with other updates of the
\* same order, cancelOrder never overwrites any other stored status.
C10_CancelOnlyFromCancellable ==
    [][\A c \in 1..Len(cancels) :
        (cancels[c].pc = "update" /\ cancels'[c].updated) =>
            ToLowerCase(orders[StoreIndex(cancels[c].orderId)].status)
                \in CancellableStatuses]_vars

(***************************************************************************)
(* The review views: ProductReviewsList (ProductReviewsList.tsx) and        *)
(* ReviewPage (ReviewPage.tsx).  One view is mounted in a behaviour; the   *)
(* state both components keep under the same name (reviews, loading,       *)
(* error) is held in reviews, rvLoading and rvError.                       *)
(***************************************************************************)
MaxListReviews == 2

MaxInFlight == 2

LoadReviewsFailedMsg == "Failed to load reviews."

DeleteLoginMsg == "You must be logged in to delete a review."

DeleteFailedMsg == "Could not delete review. Please try again."

\* Everything of the Cart and OrderHistory model but user, location and
\* currentPage.
shopVars == <<roles, orders, notifications, writes, cartItems, remoteCart,
              showConfirm, loading, errorMsg, nPlace, po, viewOrders, ohLoading,
              ohError, initFetch, statusFilter, confirmCancelId, errorMessage,
              cancels, adminUpdated>>

\* A review document (ProductReviewsList.tsx 13-20, ReviewPage.tsx 15-21);
\* createdAt is the timestamp's seconds.
ReviewDoc(id, pid, uid, rating, seconds) ==
    [id |-> id, productId |-> pid, userId |-> uid, rating |-> rating,
     createdAt |-> seconds]

\* The subscription onSnapshot opens for a view on the reviews of a product.
Subscription(view, pid) == [view |-> view, productId |-> pid]

\* The documents a snapshot of the reviews of product pid holds.
QueryReviews(pid) == SelectSeq(reviewDocs, LAMBDA d : d.productId = pid)

\* The shop is idle while a review view is shown.
ShopIdle ==
    /\ roles = [u \in Users |-> "customer"]
    /\ orders = <<>>
    /\ notifications = EmptyBag
    /\ writes = {}
    /\ cartItems = <<>> /\ remoteCart = <<>>
    /\ showConfirm = FALSE /\ loading = FALSE /\ errorMsg = NoError
    /\ nPlace = 0 /\ po = IdleCall
    /\ viewOrders = <<>>
    /\ ohLoading = FALSE
    /\ ohError = NoError
    /\ initFetch = FALSE
    /\ statusFilter = "all"
    /\ confirmCancelId = NoOrder
    /\ errorMessage = NoError
    /\ cancels = <<>>
    /\ adminUpdated = FALSE

(***************************************************************************)
(* ProductReviewsList.                                                     *)
(***************************************************************************)
ListMounted == location = "/product"

\* The products that have reviews, and the users that write them.
ReviewProducts == {1, 2}

Authors == {"u1", "a1"}

\* The review lists the component is opened on: up to MaxListReviews reviews
\* of product 1, of any authors.
AuthoredLists ==
    UNION {{[k \in 1..n |-> ReviewDoc(k, 1, by[k], 5, k)] :
            by \in [1..n -> Authors]} : n \in 0..MaxListReviews}

\* ProductReviewsList.tsx 32-36, 39-81: the component after its first render
\* and effect.
InitReviewsList ==
    /\ LogoutButtonIdle
    /\ ShopIdle
    /\ location = "/product"
    /\ currentPage = 1
    /\ user \in {NoUser} \cup Authors
    /\ reviewDocs \in AuthoredLists
    /\ productId \in {NoProduct} \cup ReviewProducts
    /\ subs = IF productId = NoProduct THEN EmptyBag
              ELSE SetToBag({Subscription("list", productId)})
    /\ reviews = <<>>
    /\ filteredReviews = <<>>
    /\ rvLoading = TRUE
    /\ rvError = NoError
    /\ sortOption = "date"
    /\ minRating = 0
    /\ deletingId = NoReview
    /\ confirmDeleteId = NoReview
    /\ deletes = EmptyBag

\* ProductReviewsList.tsx 107-116: the list is rendered unless the loading
\* text, the error or "No reviews yet." replaces it.
RenderedReviews ==
    IF ListMounted /\ ~rvLoading /\ rvError = NoError
    THEN {reviews[k] : k \in 1..Len(reviews)}
    ELSE {}

\* Delete controls shown to every signed-in user.
IsOwner_AnyUser(review) == user # NoUser

\* ProductReviewsList.tsx 120
IsOwner(review) == user # NoUser /\ user = review.userId

\* ProductReviewsList.tsx 140-151: the Delete button of a review.
DeleteButtonShown(review) ==
    review \in RenderedReviews /\ IsOwner(review) /\ confirmDeleteId # review.id

\* ProductReviewsList.tsx 152-175: the confirmation (Yes / Cancel) of a review.
DeleteConfirmShown(review) ==
    review \in RenderedReviews /\ IsOwner(review) /\ confirmDeleteId = review.id

\* ProductReviewsList.tsx 147, 161, 169: disabled={deletingId === review.id}
DeleteControlsEnabled(review) == deletingId # review.id

\* ProductReviewsList.tsx 144-151
ClickDelete(review) ==
    /\ DeleteButtonShown(review) /\ DeleteControlsEnabled(review)
    /\ confirmDeleteId' = review.id
    /\ UNCHANGED <<logoutVars, shopVars, location, currentPage, user, reviewDocs, subs,
                   productId, reviews, filteredReviews, rvLoading, rvError,
                   sortOption, minRating, deletingId, deletes>>

\* ProductReviewsList.tsx 166-172
ClickDeleteCancel(review) ==
    /\ DeleteConfirmShown(review) /\ DeleteControlsEnabled(review)
    /\ confirmDeleteId' = NoReview
    /\ UNCHANGED <<logoutVars, shopVars, location, currentPage, user, reviewDocs, subs,
                   productId, reviews, filteredReviews, rvLoading, rvError,
                   sortOption, minRating, deletingId, deletes>>

\* ProductReviewsList.tsx 158-164, 84-96: Yes; handleDelete up to the await of
\* deleteDoc.  Without a productId doc() throws inside the try block: the
\* catch and the finally run at once.
HandleDelete(review) ==
    /\ DeleteConfirmShown(review) /\ DeleteControlsEnabled(review)
    /\ BagCardinality(deletes) < MaxInFlight
    /\ IF user = NoUser
       THEN /\ rvError' = DeleteLoginMsg
            /\ UNCHANGED <<deletingId, deletes>>
       ELSE IF productId = NoProduct
       THEN /\ rvError' = DeleteFailedMsg
            /\ deletingId' = NoReview
            /\ UNCHANGED deletes
       ELSE /\ deletingId' = review.id
            /\ rvError' = NoError
            /\ deletes' = deletes (+)
                    SetToBag({[reviewId |-> review.id, productId |-> productId]})
    /\ UNCHANGED <<logoutVars, shopVars, location, currentPage, user, reviewDocs, subs,
                   productId, reviews, filteredReviews, rvLoading, sortOption,
                   minRating, confirmDeleteId>>

\* ProductReviewsList.tsx 96-97, 101-103: deleteDoc resolved.  The state of an
\* unmounted component is no longer set.
DeleteDocOk(d) ==
    /\ d \in BagToSet(deletes)
    /\ deletes' = deletes (-) SetToBag({d})
    /\ reviewDocs' = SelectSeq(reviewDocs,
            LAMBDA r : ~(r.id = d.reviewId /\ r.productId = d.productId))
    /\ IF ListMounted
       THEN confirmDeleteId' = NoReview /\ deletingId' = NoReview
       ELSE UNCHANGED <<confirmDeleteId, deletingId>>
    /\ UNCHANGED <<logoutVars, shopVars, location, currentPage, user, subs, productId,
                   reviews, filteredReviews, rvLoading, rvError, sortOption,
                   minRating>>

\* ProductReviewsList.tsx 98-103: deleteDoc rejected.
DeleteDocFail(d) ==
    /\ d \in BagToSet(deletes)
    /\ deletes' = deletes (-) SetToBag({d})
    /\ IF ListMounted
       THEN rvError' = DeleteFailedMsg /\ deletingId' = NoReview
       ELSE UNCHANGED <<rvError, deletingId>>
    /\ UNCHANGED <<logoutVars, shopVars, location, currentPage, user, reviewDocs, subs,
                   productId, reviews, filteredReviews, rvLoading, sortOption,
                   minRating, confirmDeleteId>>

\* A snapshot delivery that clears the error, as ReviewPage's does.
ListSnapshot_ClearsError ==
    /\ \E sub \in BagToSet(subs) :
        /\ sub.view = "list"
        /\ reviews' = QueryReviews(sub.productId)
    /\ rvLoading' = FALSE
    /\ rvError' = NoError
    /\ UNCHANGED <<logoutVars, shopVars, location, currentPage, user, reviewDocs, subs,
                   productId, filteredReviews, sortOption, minRating,
                   deletingId, confirmDeleteId, deletes>>

\* ProductReviewsList.tsx 55-71: the subscription delivers a snapshot.
ListSnapshot ==
    /\ \E sub \in BagToSet(subs) :
        /\ sub.view = "list"
        /\ reviews' = QueryReviews(sub.productId)
    /\ rvLoading' = FALSE
    /\ UNCHANGED <<logoutVars, shopVars, location, currentPage, user, reviewDocs, subs,
                   productId, filteredReviews, rvError, sortOption, minRating,
                   deletingId, confirmDeleteId, deletes>>

\* ProductReviewsList.tsx 72-76: the subscription reports an error.
ListSnapshotError ==
    /\ \E sub \in BagToSet(subs) : sub.view = "list"
    /\ rvError' = LoadReviewsFailedMsg
    /\ rvLoading' = FALSE
    /\ UNCHANGED <<logoutVars, shopVars, location, currentPage, user, reviewDocs, subs,
                   productId, reviews, filteredReviews, sortOption, minRating,
                   deletingId, confirmDeleteId, deletes>>

\* A change of productId whose effect subscribes without the cleanup.
ListChangeProductId_NoCleanup(pid) ==
    /\ ListMounted /\ pid # productId
    /\ productId' = pid
    /\ IF pid = NoProduct
       THEN UNCHANGED <<subs, rvLoading, rvError>>
       ELSE /\ subs' = subs (+) SetToBag({Subscription("list", pid)})
            /\ rvLoading' = TRUE
            /\ rvError' = NoError
    /\ UNCHANGED <<logoutVars, shopVars, location, currentPage, user, reviewDocs, reviews,
                   filteredReviews, sortOption, minRating, deletingId,
                   confirmDeleteId, deletes>>

\* ProductReviewsList.tsx 39-81: the productId prop changes; the cleanup of
\* the previous effect runs, then the effect.
ListChangeProductId(pid) ==
    /\ ListMounted /\ pid # productId
    /\ productId' = pid
    /\ IF pid = NoProduct
       THEN /\ subs' = EmptyBag
            /\ UNCHANGED <<rvLoading, rvError>>
       ELSE /\ subs' = SetToBag({Subscription("list", pid)})
            /\ rvLoading' = TRUE
            /\ rvError' = NoError
    /\ UNCHANGED <<logoutVars, shopVars, location, currentPage, user, reviewDocs, reviews,
                   filteredReviews, sortOption, minRating, deletingId,
                   confirmDeleteId, deletes>>

\* ProductReviewsList.tsx 23-29: the userId prop changes (sign-in, sign-out).
ListChangeUser(uid) ==
    /\ ListMounted /\ uid # user
    /\ user' = uid
    /\ UNCHANGED <<logoutVars, shopVars, location, currentPage, reviewVars>>

\* ProductReviewsList.tsx 80: the component is unmounted; the cleanup runs.
ListUnmount ==
    /\ ListMounted
    /\ location' = "/"
    /\ subs' = EmptyBag
    /\ UNCHANGED <<logoutVars, shopVars, currentPage, user, reviewDocs, productId, reviews,
                   filteredReviews, rvLoading, rvError, sortOption, minRating,
                   deletingId, confirmDeleteId, deletes>>

NextReviewsList ==
    \/ \E r \in RenderedReviews : ClickDelete(r)
    \/ \E r \in RenderedReviews : ClickDeleteCancel(r)
    \/ \E r \in RenderedReviews : HandleDelete(r)
    \/ \E d \in BagToSet(deletes) : DeleteDocOk(d)
    \/ \E d \in BagToSet(deletes) : DeleteDocFail(d)
    \/ ListSnapshot
    \/ ListSnapshotError
    \/ \E pid \in {NoProduct} \cup ReviewProducts : ListChangeProductId(pid)
    \/ \E uid \in {NoUser} \cup Authors : ListChangeUser(uid)
    \/ ListUnmount

(***************************************************************************)
(* OrderHistory: the status filter and the pagination of a fetched list.   *)
(***************************************************************************)
MaxListed == 20

\* OrderHistory.tsx 173-178: the options of the status filter.
FilterOptions ==
    {"all", "pending", "in process", "cancelled", "refunded", "delivered"}

\* The statuses of the fetched lists, taken in turn along a list.
StatusCycle == <<"pending", "delivered", "Pending", "cancelled", "in process">>

\* The order lists the view is opened on: up to MaxListed orders of the user,
\* the k-th with the status m * k steps along StatusCycle.
OrderLists ==
    {[k \in 1..n |->
        StoredOrder(k, CurrentUid, StatusCycle[((m * k) % Len(StatusCycle)) + 1])] :
     n \in 0..MaxListed, m \in 0..2}

\* OrderHistory.tsx 52-62: the view with its orders fetched.
InitOrderPages ==
    /\ LogoutButtonIdle
    /\ ReviewViewsUnmounted
    /\ user = CurrentUid
    /\ roles = [u \in Users |-> "customer"]
    /\ orders \in OrderLists
    /\ notifications = EmptyBag
    /\ writes = {}
    /\ cartItems = <<>> /\ remoteCart = <<>>
    /\ location = "/orders"
    /\ showConfirm = FALSE /\ loading = FALSE /\ errorMsg = NoError
    /\ nPlace = 0 /\ po = IdleCall
    /\ viewOrders = orders
    /\ ohLoading = FALSE
    /\ ohError = NoError
    /\ initFetch = FALSE
    /\ currentPage = 1
    /\ statusFilter = "all"
    /\ confirmCancelId = NoOrder
    /\ errorMessage = NoError
    /\ cancels = <<>>
    /\ adminUpdated = FALSE

\* OrderHistory.tsx 127-151: neither the spinner nor the load error is shown.
OrderListRendered == location = "/orders" /\ ~ohLoading /\ ohError = NoError

\* OrderHistory.tsx 332: the pagination buttons are rendered.
PaginationShown ==
    OrderListRendered /\ Len(FilteredOrders) > ORDERS_PER_PAGE

\* A filter change that leaves the page index alone.
SelectStatusFilter_KeepsPage(f) ==
    /\ OrderListRendered /\ f \in FilterOptions /\ f # statusFilter
    /\ statusFilter' = f
    /\ UNCHANGED <<logoutVars, reviewVars, cartVars, user, storeVars, orderStateVars,
                   currentPage, confirmCancelId, errorMessage, cancels,
                   adminUpdated>>

\* OrderHistory.tsx 167-170: onChange of the status select.
SelectStatusFilter(f) ==
    /\ OrderListRendered /\ f \in FilterOptions /\ f # statusFilter
    /\ currentPage' = 1
    /\ statusFilter' = f
    /\ UNCHANGED <<logoutVars, reviewVars, cartVars, user, storeVars, orderStateVars,
                   confirmCancelId, errorMessage, cancels, adminUpdated>>

\* OrderHistory.tsx 182-188: Clear Filter.
ClearFilter ==
    /\ OrderListRendered /\ statusFilter # "all"
    /\ statusFilter' = "all"
    /\ currentPage' = 1
    /\ UNCHANGED <<logoutVars, reviewVars, cartVars, user, storeVars, orderStateVars,
                   confirmCancelId, errorMessage, cancels, adminUpdated>>

\* OrderHistory.tsx 334-340: Prev.
PrevPage ==
    /\ PaginationShown /\ currentPage # 1
    /\ currentPage' = currentPage - 1
    /\ UNCHANGED <<logoutVars, reviewVars, cartVars, user, storeVars, orderStateVars,
                   statusFilter, confirmCancelId, errorMessage, cancels,
                   adminUpdated>>

\* OrderHistory.tsx 346-352: Next.
NextPage ==
    /\ PaginationShown /\ currentPage # TotalPages
    /\ currentPage' = currentPage + 1
    /\ UNCHANGED <<logoutVars, reviewVars, cartVars, user, storeVars, orderStateVars,
                   statusFilter, confirmCancelId, errorMessage, cancels,
                   adminUpdated>>

NextOrderPages ==
    \/ \E f \in FilterOptions : SelectStatusFilter(f)
    \/ ClearFilter
    \/ PrevPage
    \/ NextPage

(***************************************************************************)
(* ReviewPage.                                                             *)
(***************************************************************************)
reviewsPerPage == 5

MaxReviews == 6

InvalidProductMsg == "Invalid product ID."

\* ReviewPage.tsx 123-124, 133-136: the options of the two selects.
SortOptions == {"date", "rating"}

MinRatingOptions == {0, 4, 3, 2}

\* The ratings of the reviews the page is opened on.
RatingValues == {2, 3, 5}

\* createdAt.seconds of the k-th review in store order: neither ordered along
\* the list nor free of ties.
SecondsOf(k) == (2 * k) % 3

\* The ratings of the longer lists, taken in turn along a list.
RatingCycle == <<2, 5, 3>>

\* The review lists the page is opened on, all of product 1: the lists of up
\* to MaxReviews \div 2 reviews of any ratings, and the longer ones of up to
\* MaxReviews reviews, the k-th with the rating m * k steps along RatingCycle.
RatedLists ==
    UNION {{[k \in 1..n |-> ReviewDoc(k, 1, CurrentUid, rt[k], SecondsOf(k))] :
            rt \in [1..n -> RatingValues]} : n \in 0..(MaxReviews \div 2)}
    \cup
    {[k \in 1..n |->
        ReviewDoc(k, 1, CurrentUid, RatingCycle[((m * k) % Len(RatingCycle)) + 1],
                  SecondsOf(k))] :
     n \in (MaxReviews \div 2 + 1)..MaxReviews, m \in 0..2}

\* The value the comparators of ReviewPage.tsx 101 and 103 compare.
SortKey(review, option) ==
    IF option = "date" THEN review.createdAt ELSE review.rating

RECURSIVE InsertSorted_Ascending(_, _, _)
\* An insertion that orders by increasing key.
InsertSorted_Ascending(sorted, review, option) ==
    IF sorted = <<>> THEN <<review>>
    ELSE IF SortKey(Head(sorted), option) <= SortKey(review, option)
    THEN <<Head(sorted)>> \o InsertSorted_Ascending(Tail(sorted), review, option)
    ELSE <<review>> \o sorted

RECURSIVE InsertSorted(_, _, _)
\* Array.prototype.sort with (a, b) => key(b) - key(a) is a stable sort by
\* decreasing key: a review goes behind every review whose key is not less.
InsertSorted(sorted, review, option) ==
    IF sorted = <<>> THEN <<review>>
    ELSE IF SortKey(Head(sorted), option) >= SortKey(review, option)
    THEN <<Head(sorted)>> \o InsertSorted(Tail(sorted), review, option)
    ELSE <<review>> \o sorted

RECURSIVE SortFrom(_, _, _, _)
SortFrom(sorted, list, i, option) ==
    IF i > Len(list) THEN sorted
    ELSE SortFrom(InsertSorted(sorted, list[i], option), list, i + 1, option)

\* ReviewPage.tsx 96-104: filter by minRating, then sort.
SortedAndFiltered(list, option, min) ==
    LET kept == SelectSeq(list, LAMBDA review : review.rating >= min)
    IN IF option \in SortOptions THEN SortFrom(<<>>, kept, 1, option) ELSE kept

PageMounted == location = "/reviews"

\* ReviewPage.tsx 36-42, 54-109: the page after its first render and effects.
InitReviewPage ==
    /\ LogoutButtonIdle
    /\ ShopIdle
    /\ location = "/reviews"
    /\ user = NoUser
    /\ reviewDocs \in RatedLists
    /\ productId \in {NoProduct} \cup ReviewProducts
    /\ subs = IF productId = NoProduct THEN EmptyBag
              ELSE SetToBag({Subscription("page", productId)})
    /\ reviews = <<>>
    /\ filteredReviews = <<>>
    /\ rvLoading = (productId # NoProduct)
    /\ rvError = IF productId = NoProduct THEN InvalidProductMsg ELSE NoError
    /\ currentPage = 1
    /\ sortOption = "date"
    /\ minRating = 0
    /\ deletingId = NoReview
    /\ confirmDeleteId = NoReview
    /\ deletes = EmptyBag

\* ReviewPage.tsx 45
ReviewTotalPages == (Len(filteredReviews) + reviewsPerPage - 1) \div reviewsPerPage

\* ReviewPage.tsx 48-51
PaginatedReviews ==
    LET n == Len(filteredReviews)
        start == (currentPage - 1) * reviewsPerPage
        from == IF start > n THEN n ELSE start
        to == IF currentPage * reviewsPerPage > n THEN n
              ELSE currentPage * reviewsPerPage
    IN SubSeq(filteredReviews, from + 1, to)

\* ReviewPage.tsx 141-147, 175: the Prev / Next buttons are rendered.
ReviewPaginationShown ==
    /\ PageMounted /\ ~rvLoading /\ rvError = NoError
    /\ filteredReviews # <<>> /\ ReviewTotalPages > 1

\* ReviewPage.tsx 95-109: the effect on [reviews, sortOption, minRating], run
\* with the values the step has set.
SortAndFilterEffect(list, option, min) ==
    /\ filteredReviews' = SortedAndFiltered(list, option, min)
    /\ currentPage' = 1

\* ReviewPage.tsx 71-81, 95-109: the subscription delivers a snapshot.
PageSnapshot ==
    /\ \E sub \in BagToSet(subs) :
        /\ sub.view = "page"
        /\ reviews' = QueryReviews(sub.productId)
    /\ rvLoading' = FALSE
    /\ rvError' = NoError
    /\ SortAndFilterEffect(reviews', sortOption, minRating)
    /\ UNCHANGED <<logoutVars, shopVars, location, user, reviewDocs, subs, productId,
                   sortOption, minRating, deletingId, confirmDeleteId, deletes>>

\* ReviewPage.tsx 82-87: the subscription reports an error.
PageSnapshotError ==
    /\ \E sub \in BagToSet(subs) : sub.view = "page"
    /\ rvError' = LoadReviewsFailedMsg
    /\ rvLoading' = FALSE
    /\ UNCHANGED <<logoutVars, shopVars, location, currentPage, user, reviewDocs, subs,
                   productId, reviews, filteredReviews, sortOption, minRating,
                   deletingId, confirmDeleteId, deletes>>

\* ReviewPage.tsx 118-125, 95-109: the sort select changes.
SetSortOption(option) ==
    /\ PageMounted /\ option \in SortOptions /\ option # sortOption
    /\ sortOption' = option
    /\ SortAndFilterEffect(reviews, option, minRating)
    /\ UNCHANGED <<logoutVars, shopVars, location, user, reviewDocs, subs, productId,
                   reviews, rvLoading, rvError, minRating, deletingId,
                   confirmDeleteId, deletes>>

\* ReviewPage.tsx 128-137, 95-109: the minimum rating select changes.
SetMinRating(min) ==
    /\ PageMounted /\ min \in MinRatingOptions /\ min # minRating
    /\ minRating' = min
    /\ SortAndFilterEffect(reviews, sortOption, min)
    /\ UNCHANGED <<logoutVars, shopVars, location, user, reviewDocs, subs, productId,
                   reviews, rvLoading, rvError, sortOption, deletingId,
                   confirmDeleteId, deletes>>

\* ReviewPage.tsx 177-183: Prev.
ReviewPrevPage ==
    /\ ReviewPaginationShown /\ currentPage # 1
    /\ currentPage' = IF currentPage - 1 > 1 THEN currentPage - 1 ELSE 1
    /\ UNCHANGED <<logoutVars, shopVars, location, user, reviewVars>>

\* ReviewPage.tsx 187-195: Next.
ReviewNextPage ==
    /\ ReviewPaginationShown /\ currentPage # ReviewTotalPages
    /\ currentPage' = IF currentPage + 1 < ReviewTotalPages THEN currentPage + 1
                      ELSE ReviewTotalPages
    /\ UNCHANGED <<logoutVars, shopVars, location, user, reviewVars>>

\* ReviewPage.tsx 54-92: the productId of the route changes; the cleanup of
\* the previous effect runs, then the effect.
PageChangeProductId(pid) ==
    /\ PageMounted /\ pid # productId
    /\ productId' = pid
    /\ IF pid = NoProduct
       THEN /\ subs' = EmptyBag
            /\ rvError' = InvalidProductMsg
            /\ rvLoading' = FALSE
       ELSE /\ subs' = SetToBag({Subscription("page", pid)})
            /\ UNCHANGED <<rvLoading, rvError>>
    /\ UNCHANGED <<logoutVars, shopVars, location, currentPage, user, reviewDocs, reviews,
                   filteredReviews, sortOption, minRating, deletingId,
                   confirmDeleteId, deletes>>

\* ReviewPage.tsx 91: the page is unmounted; the cleanup runs.
PageUnmount ==
    /\ PageMounted
    /\ location' = "/"
    /\ subs' = EmptyBag
    /\ UNCHANGED <<logoutVars, shopVars, currentPage, user, reviewDocs, productId, reviews,
                   filteredReviews, rvLoading, rvError, sortOption, minRating,
                   deletingId, confirmDeleteId, deletes>>

NextReviewPage ==
    \/ PageSnapshot
    \/ PageSnapshotError
    \/ \E option \in SortOptions : SetSortOption(option)
    \/ \E min \in MinRatingOptions : SetMinRating(min)
    \/ ReviewPrevPage
    \/ ReviewNextPage
    \/ \E pid \in {NoProduct} \cup ReviewProducts : PageChangeProductId(pid)
    \/ PageUnmount

(***************************************************************************)
(* The list views together: one of them is mounted in a behaviour.         *)
(***************************************************************************)
InitViews == InitOrderPages \/ InitReviewPage \/ InitReviewsList

NextViews == NextOrderPages \/ NextReviewPage \/ NextReviewsList

SpecViews == InitViews /\ [][NextViews]_vars

(***************************************************************************)
(* Properties of the list views, checked under SpecViews.                  *)
(***************************************************************************)
\* The deleteDoc calls a step starts.
StartedDeletes ==
    {d \in BagToSet(deletes') : CopiesIn(d, deletes') > CopiesIn(d, deletes)}

\* C11: in ProductReviewsList a delete of a review is issued to the store only
\* when the acting userId is defined and equals the review's author: the
\* delete controls are offered to nobody else, and every deleteDoc call is
\* made by the author of the review it names.
C11_DeleteOnlyByAuthor ==
    /\ [](\A review \in RenderedReviews :
            (DeleteButtonShown(review) \/ DeleteConfirmShown(review)) =>
                (user # NoUser /\ user = review.userId))
    /\ [][\A d \in StartedDeletes :
            /\ user # NoUser
            /\ \E k \in 1..Len(reviews) :
                reviews[k].id = d.reviewId /\ reviews[k].userId = user
            /\ \A j \in 1..Len(reviewDocs) :
                (reviewDocs[j].id = d.reviewId
                    /\ reviewDocs[j].productId = d.productId) =>
                        reviewDocs[j].userId = user]_vars
    /\ [][(Len(reviewDocs') < Len(reviewDocs)) =>
            \E d \in BagToSet(deletes) : CopiesIn(d, deletes') < CopiesIn(d, deletes)]_vars

C11_Witness ==
    /\ \E d \in BagToSet(deletes), k \in 1..Len(reviewDocs) :
        reviewDocs[k].id = d.reviewId /\ reviewDocs[k].userId = user
    /\ \E other \in RenderedReviews :
        /\ other.userId # user
        /\ ~DeleteButtonShown(other) /\ ~DeleteConfirmShown(other)

RECURSIVE PagesUpTo(_)
\* The orders of the pages 1..p, in page order.
PagesUpTo(p) == IF p = 0 THEN <<>> ELSE PagesUpTo(p - 1) \o OrdersOnPage(p)

\* C12: for every filtered list of length N and every page p in 1..ceil(N/9)
\* OrderHistory shows exactly the orders at positions 9(p-1) .. min(9p, N)-1,
\* so the pages in order partition the filtered list; with N = 12, page 1
\* shows 9 orders and page 2 the remaining 3.
C12_PagesPartitionFilteredList ==
    location = "/orders" =>
        LET N == Len(FilteredOrders)
            P == (N + 8) \div 9
        IN /\ TotalPages = P
           /\ \A p \in 1..P :
                LET last == IF 9 * p < N THEN 9 * p ELSE N
                IN OrdersOnPage(p) =
                    [j \in 1..(last - 9 * (p - 1)) |-> FilteredOrders[9 * (p - 1) + j]]
           /\ PagesUpTo(P) = FilteredOrders
           /\ currentPage \in 1..P =>
                /\ CurrentOrders = OrdersOnPage(currentPage)
                /\ OrderListRendered =>
                    RenderedRows = {FilteredOrders[i] :
                        i \in {i \in 1..N : (i - 1) \div 9 = currentPage - 1}}
           /\ N = 12 => Len(OrdersOnPage(1)) = 9 /\ Len(OrdersOnPage(2)) = 3

C12_Witness ==
    /\ location = "/orders" /\ Len(FilteredOrders) = 12 /\ statusFilter # "all"
    /\ currentPage = 2 /\ Len(CurrentOrders) = 3
    /\ Cardinality(RenderedRows) = 3

\* C13: the page index is reset to 1 whenever the filter or sort key changes:
\* in OrderHistory after selecting a status filter or pressing Clear Filter,
\* in ReviewPage after any change of sortOption or minRating, whatever the
\* page shown before.
C13_PageResetOnFilterChange ==
    /\ [][(location = "/orders" /\ statusFilter' # statusFilter) =>
            currentPage' = 1]_vars
    /\ [][(location = "/reviews"
            /\ (sortOption' # sortOption \/ minRating' # minRating)) =>
            currentPage' = 1]_vars

C13_Witness ==
    /\ location = "/reviews" /\ sortOption = "rating" /\ minRating = 2
    /\ ReviewTotalPages = 2 /\ currentPage = 1 /\ Len(PaginatedReviews) = 5

\* The ratings of a list of reviews, in list order.
RatingsOf(list) == [k \in 1..Len(list) |-> list[k].rating]

\* C14: in ReviewPage with sort option 'rating' the derived list is a
\* permutation of exactly the fetched reviews whose rating is >= minRating,
\* ordered by rating non-increasing (ratings [2,5,3] with minRating 0 yield
\* [5,3,2]); with sort option 'date' it is the same set ordered by creation
\* time non-increasing.
C14_SortedFilteredReviews ==
    location = "/reviews" =>
        LET kept == {reviews[k] : k \in {i \in 1..Len(reviews) :
                                            reviews[i].rating >= minRating}}
            n == Len(filteredReviews)
        IN /\ {filteredReviews[k] : k \in 1..n} = kept
           /\ n = Cardinality(kept)
           /\ sortOption = "rating" =>
                \A i, j \in 1..n :
                    i < j => filteredReviews[i].rating >= filteredReviews[j].rating
           /\ sortOption = "date" =>
                \A i, j \in 1..n :
                    i < j => filteredReviews[i].createdAt >= filteredReviews[j].createdAt
           /\ (RatingsOf(reviews) = <<2, 5, 3>> /\ minRating = 0
                    /\ sortOption = "rating") =>
                RatingsOf(filteredReviews) = <<5, 3, 2>>

C14_Witness ==
    /\ location = "/reviews" /\ sortOption = "rating" /\ minRating = 0
    /\ RatingsOf(reviews) = <<2, 5, 3>>
    /\ RatingsOf(filteredReviews) = <<5, 3, 2>>

(***************************************************************************)
(* The stages of placeOrder, checked under SpecCart.                       *)
(***************************************************************************)
\* C15: within one placeOrder call the stages run strictly in sequence: the
\* admin query starts only after the order create has resolved, clearCart is
\* dispatched only after the fan-out stage has ended (completed or caught),
\* and the remote empty-cart write is issued only after the local clear; the
\* call awaits one stage at a time.
C15_StagesInSequence ==
    /\ [][(po.pc # "adminQuery" /\ po'.pc = "adminQuery") =>
            (po.pc = "create" /\ po'.created = "ok" /\ po'.call = po.call)]_vars
    /\ [][(~po.cleared /\ po'.cleared) =>
            /\ po.pc \in {"adminQuery", "fanout"}
            /\ po.created = "ok"
            /\ po'.fanout \in {"ok", "failed"}]_vars
    /\ [][(~po.saveAttempted /\ po'.saveAttempted) =>
            (po'.cleared /\ cartItems' = <<>>)]_vars
    /\ [](po.pc = "create" =>
            /\ po.created = "none" /\ po.fanout = "none" /\ po.save = "none"
            /\ PlaceWrites(po.call) = {} /\ ~po.cleared /\ ~po.saveAttempted)
    /\ [](po.pc \in {"adminQuery", "fanout"} =>
            /\ po.created = "ok" /\ po.fanout = "none" /\ po.save = "none"
            /\ ~po.cleared /\ ~po.saveAttempted /\ cartItems = po.items)
    /\ [](po.pc = "adminQuery" => PlaceWrites(po.call) = {})
    /\ [](po.pc = "saveCart" =>
            /\ po.created = "ok" /\ po.fanout \in {"ok", "failed"}
            /\ po.save = "none" /\ po.cleared /\ cartItems = <<>>)

C15_Witness ==
    /\ po.created = "ok" /\ po.admins # {} /\ po.fanout = "ok"
    /\ po.cleared /\ po.save = "ok" /\ po.outcome = "resolved"

\* C16: the admin notification batch is awaited as a whole: in placeOrder the
\* local cart clear never happens, and in cancelOrder the call never settles,
\* while a notification write of that same fan-out is still in flight, also
\* when one of the concurrent writes fails before the others have settled.
C16_BatchAwaitedAsWhole ==
    /\ po.cleared => PlaceWrites(po.call) = {}
    /\ \A c \in 1..Len(cancels) : cancels[c].pc \in {"refetch", "done"} =>
            CancelWrites(c) = {}

(***************************************************************************)
(* The cancel confirmation of OrderHistory, checked under SpecOH.          *)
(***************************************************************************)
\* C17: the cancel confirmation of a row follows idle -> confirming ->
\* cancelling -> idle, No going from confirming to idle without a store
\* write; when the cancel attempt fails the row re-enters idle (the prompt is
\* closed, confirmCancelId is no longer that order) with the error message
\* attached.
C17_FailureReentersIdle ==
    /\ [][(confirmCancelId # NoOrder /\ confirmCancelId' = NoOrder
            /\ cancels' = cancels) =>
            (orders' = orders /\ notifications' = notifications
                /\ writes' = writes)]_vars
    /\ [][\A c \in 1..Len(cancels) :
            (cancels[c].outcome = "none" /\ cancels'[c].outcome = "failed") =>
                /\ errorMessage' = CancelFailedMsg
                /\ confirmCancelId' # cancels[c].orderId]_vars

\* C18: the cancel error message is scoped to the row whose cancellation
\* failed: it is displayed only on the row of an order for which a cancel
\* attempt failed, never on the row of another order whose confirmation is
\* opened afterwards.
C18_ErrorScopedToFailedRow ==
    \A order \in RenderedRows :
        CancelErrorShown(order) =>
            \E c \in CallsFor(order.id) : cancels[c].outcome = "failed"

(***************************************************************************)
(* The review views, checked under SpecViews.                              *)
(***************************************************************************)
\* C19: review deletion in ProductReviewsList is two-step: a store delete of
\* review r is issued only while confirmDeleteId = r; Cancel returns to the
\* unconfirmed state with no store write; and while a delete of r is in
\* flight its Delete, Yes and Cancel controls are disabled, so that no second
\* delete of r can be started.
C19_TwoStepDelete ==
    /\ [][\A d \in StartedDeletes : confirmDeleteId = d.reviewId]_vars
    /\ [][(confirmDeleteId # NoReview /\ confirmDeleteId' = NoReview
            /\ deletes' = deletes) =>
            reviewDocs' = reviewDocs]_vars
    /\ [](\A d \in BagToSet(deletes) : \A review \in RenderedReviews :
            review.id = d.reviewId =>
                ~(/\ DeleteButtonShown(review) \/ DeleteConfirmShown(review)
                  /\ DeleteControlsEnabled(review)))
    /\ [][\A d \in StartedDeletes : CopiesIn(d, deletes) = 0]_vars

\* The view a subscription belongs to is the one mounted.
ViewAt(route) ==
    IF route = "/reviews" THEN "page" ELSE IF route = "/product" THEN "list"
    ELSE "none"

\* C20: each review view holds at most one active subscription at any time:
\* one is opened only for a defined productId, the previous one is
\* unsubscribed when productId changes before the new one is used, none stays
\* active after the view is torn down, and none is ended otherwise.
C20_OneSubscriptionPerView ==
    /\ [](BagCardinality(subs) <= 1)
    /\ [](\A sub \in BagToSet(subs) :
            /\ sub.productId # NoProduct
            /\ sub.productId = productId
            /\ sub.view = ViewAt(location))
    /\ []((location \in {"/reviews", "/product"} /\ productId # NoProduct) =>
            BagCardinality(subs) = 1)
    /\ [](location \notin {"/reviews", "/product"} => subs = EmptyBag)
    /\ [][subs' # subs => (productId' # productId \/ location' # location)]_vars

C20_Witness ==
    /\ location = "/" /\ subs = EmptyBag
    /\ productId = 2 /\ reviews # <<>>

\* C21: cancelling an order changes only the status field of that order's
\* document: its line items, total, owner and creation time, and every other
\* order document, are left unchanged, so the total of a cancelled order still
\* equals the sum of price x quantity of its line items.
C21_CancelChangesOnlyStatus ==
    /\ [][(orders' # orders /\ adminUpdated' = adminUpdated) =>
            \E c \in 1..Len(cancels) :
                /\ cancels[c].pc = "update" /\ cancels'[c].updated
                /\ orders' = [orders EXCEPT
                                ![StoreIndex(cancels[c].orderId)].status =
                                    "cancelled"]]_vars
    /\ [](\A c \in 1..Len(cancels) : cancels[c].updated =>
            LET order == orders[StoreIndex(cancels[c].orderId)] IN
                /\ order = [StoredOrder(order.id, cancels[c].userId, "pending")
                                EXCEPT !.status = order.status]
                /\ order.total = LineSum(order.items))

C21_Witness ==
    \E c \in 1..Len(cancels) : \E k \in 1..Len(orders) :
        /\ cancels[c].updated /\ cancels[c].pc = "done"
        /\ orders[StoreIndex(cancels[c].orderId)].status = "cancelled"
        /\ orders[k].id # cancels[c].orderId /\ orders[k].status = "pending"
        /\ orders[k].total = LineSum(orders[k].items) /\ orders[k].total > 0

\* C22: one confirmation in the Cart view produces exactly one Order
\* document: a placeOrder call is started only by Yes and only while no call is
\* in flight (the button is disabled while loading), it issues one create, not
\* retried, and an order document appears exactly when the create of a call
\* succeeds, so the orders created never outnumber the placements.
C22_OneOrderPerConfirmation ==
    /\ [](loading <=> po.pc # "idle")
    /\ [][nPlace' # nPlace =>
            /\ nPlace' = nPlace + 1
            /\ po.pc = "idle" /\ ~loading
            /\ po'.pc = "create" /\ po'.call = nPlace' /\ po'.created = "none"]_vars
    /\ [][po'.pc = "create" => (po.pc = "create" \/ nPlace' = nPlace + 1)]_vars
    /\ [][(po.pc = "create" /\ po'.pc # "create") =>
            /\ po'.call = po.call
            /\ po'.created \in {"ok", "failed"}
            /\ po'.created = "ok" <=> Len(orders') = Len(orders) + 1]_vars
    /\ [][orders' # orders =>
            /\ po.pc = "create" /\ po'.created = "ok"
            /\ SubSeq(orders', 1, Len(orders)) = orders
            /\ Len(orders') = Len(orders) + 1
            /\ orders'[Len(orders')].id = po'.orderId
            /\ orders'[Len(orders')].userId = po.uid]_vars
    /\ [](Len(orders) <= nPlace)

C22_Witness ==
    /\ nPlace = 2 /\ Len(orders) = 1
    /\ po.call = 2 /\ po.created = "ok" /\ po.outcome = "resolved"

(***************************************************************************)
(* OrderHistory with its pagination, its filter and its cancel workflow   *)
(* together: the view is opened on a list of more than one page.           *)
(***************************************************************************)
\* OrderHistory.tsx 52-62: the view mounted on a store that holds more than
\* one page of the user's orders, its first fetch pending.
InitOHPages ==
    /\ LogoutButtonIdle
    /\ ReviewViewsUnmounted
    /\ user = CurrentUid
    /\ roles \in {[u \in Users |-> IF u = CurrentUid THEN "customer" ELSE r] :
                   r \in Roles}
    /\ orders \in {list \in OrderLists :
                    /\ Len(list) > ORDERS_PER_PAGE
                    /\ Len(list) <= ORDERS_PER_PAGE + NumOrders}
    /\ notifications = EmptyBag
    /\ writes = {}
    /\ cartItems = <<>> /\ remoteCart = <<>>
    /\ location = "/orders"
    /\ showConfirm = FALSE /\ loading = FALSE /\ errorMsg = NoError
    /\ nPlace = 0 /\ po = IdleCall
    /\ viewOrders = <<>>
    /\ ohLoading = TRUE
    /\ ohError = NoError
    /\ initFetch = TRUE
    /\ currentPage = 1
    /\ statusFilter = "all"
    /\ confirmCancelId = NoOrder
    /\ errorMessage = NoError
    /\ cancels = <<>>
    /\ adminUpdated = FALSE

NextOHPages ==
    \/ FetchOrdersOk
    \/ FetchOrdersFail
    \/ \E f \in FilterOptions : SelectStatusFilter(f)
    \/ ClearFilter
    \/ PrevPage
    \/ NextPage
    \/ \E o \in RenderedRows : ClickCancel(o)
    \/ \E o \in RenderedRows : ClickNo(o)
    \/ \E o \in RenderedRows : ClickYes(o)
    \/ \E c \in 1..MaxCancelCalls : UpdateOk(c)
    \/ \E c \in 1..MaxCancelCalls : UpdateFail(c)
    \/ \E c \in 1..MaxCancelCalls : OwnerNotifOk(c)
    \/ \E c \in 1..MaxCancelCalls : OwnerNotifFail(c)
    \/ \E c \in 1..MaxCancelCalls : CancelAdminQueryOk(c)
    \/ \E c \in 1..MaxCancelCalls : CancelAdminQueryFail(c)
    \/ \E w \in writes : CancelNotifWriteOk(w)
    \/ \E w \in writes : CancelNotifWriteFail(w)
    \/ \E c \in 1..MaxCancelCalls : RefetchOk(c)
    \/ \E c \in 1..MaxCancelCalls : RefetchFail(c)

SpecOHPages == InitOHPages /\ [][NextOHPages]_vars

\* C23: in OrderHistory, after any sequence of filter changes, Prev/Next clicks
\* and successful cancellations followed by a refetch, the current page stays
\* within range, 1 <= currentPage <= max(1, ceil(filteredOrders.length / 9)),
\* so whenever the filtered list is non-empty the displayed page holds at
\* least one order.
C23_CurrentPageInRange ==
    /\ 1 <= currentPage
    /\ currentPage <= (IF TotalPages > 1 THEN TotalPages ELSE 1)
    /\ Len(FilteredOrders) > 0 => Len(CurrentOrders) > 0

\* The deletes in flight that end in this step.
EndedDeletes ==
    {d \in BagToSet(deletes) : CopiesIn(d, deletes') < CopiesIn(d, deletes)}

\* C24: in ProductReviewsList a failed delete leaves the review in the store,
\* resets deletingId to null and sets the error message; once set, the error
\* message stays for the current productId: snapshot deliveries do not clear
\* it, the review list and its delete controls are not rendered while it is
\* set, and it is cleared only when productId changes.
C24_DeleteErrorAbsorbing ==
    /\ [][(ListMounted /\ rvError' = DeleteFailedMsg /\ rvError # DeleteFailedMsg) =>
            reviewDocs' = reviewDocs /\ deletingId' = NoReview]_vars
    /\ [][\A d \in EndedDeletes :
            (/\ ListMounted
             /\ \E k \in 1..Len(reviewDocs') :
                    /\ reviewDocs'[k].id = d.reviewId
                    /\ reviewDocs'[k].productId = d.productId) =>
                /\ reviewDocs' = reviewDocs
                /\ deletingId' = NoReview
                /\ rvError' = DeleteFailedMsg]_vars
    /\ [][(ListMounted /\ rvError # NoError /\ productId' = productId) =>
            rvError' # NoError]_vars
    /\ [][(ListMounted /\ rvError # NoError /\ reviews' # reviews) =>
            rvError' = rvError]_vars
    /\ []((ListMounted /\ rvError # NoError) =>
            /\ RenderedReviews = {}
            /\ \A k \in 1..Len(reviews) :
                ~DeleteButtonShown(reviews[k]) /\ ~DeleteConfirmShown(reviews[k]))

C24_Witness ==
    /\ ListMounted /\ rvError = DeleteFailedMsg /\ deletingId = NoReview
    /\ ~rvLoading /\ productId # NoProduct
    /\ \E k \in 1..Len(reviews) :
        /\ reviews[k].id = confirmDeleteId
        /\ reviews[k] \in {reviewDocs[j] : j \in 1..Len(reviewDocs)}
    /\ reviews = QueryReviews(productId) /\ Len(reviews) < MaxListReviews
    /\ deletes = EmptyBag

\* C25: every cart line cleared by a placement is part of the created order:
\* for any interleaving of placeOrder with the +, - and Remove buttons, the
\* items and quantities the clear removes from the local cart, and the save
\* from the remote cart, are exactly those recorded in the Order document.
C25_ClearedLinesAreOrdered ==
    /\ [][(~po.cleared /\ po'.cleared) =>
            /\ po.orderId \in 1..Len(orders)
            /\ OrderItems(cartItems) = orders[po.orderId].items]_vars
    /\ [][(remoteCart' # remoteCart) =>
            /\ po.orderId \in 1..Len(orders)
            /\ OrderItems(remoteCart) = orders[po.orderId].items]_vars

(***************************************************************************)
(* LogoutButton (ProductCard.tsx 161-223).  Each run of handleLogout is a  *)
(* record of logouts: pc tells whether its signOut is still awaited,       *)
(* outcome how the signOut settled.                                        *)
(***************************************************************************)
MaxLogouts == 5

LogoutFailedMsg == "Failed to logout. Please try again."

\* ProductCard.tsx 168-175: the button mounted next to an idle shop.
InitLogout ==
    /\ LogoutButtonIdle
    /\ ReviewViewsUnmounted
    /\ ShopIdle
    /\ location = "/"
    /\ currentPage = 1
    /\ user \in {NoUser, CurrentUid}

\* ProductCard.tsx 202: disabled={loading}
LogoutButtonEnabled == ~logoutLoading

SignOutsInFlight == {i \in 1..Len(logouts) : logouts[i].pc = "signOut"}

\* A button that is not disabled while loading.
HandleLogout_NotDisabled ==
    /\ Len(logouts) < MaxLogouts
    /\ logoutError' = NoError
    /\ logoutLoading' = TRUE
    /\ logouts' = Append(logouts, [pc |-> "signOut", outcome |-> "none"])
    /\ UNCHANGED <<reviewVars, shopVars, location, currentPage, user>>

\* ProductCard.tsx 178-184, 201-202: a click; handleLogout up to the await of
\* signOut.
HandleLogout ==
    /\ LogoutButtonEnabled
    /\ Len(logouts) < MaxLogouts
    /\ logoutError' = NoError
    /\ logoutLoading' = TRUE
    /\ logouts' = Append(logouts, [pc |-> "signOut", outcome |-> "none"])
    /\ UNCHANGED <<reviewVars, shopVars, location, currentPage, user>>

\* ProductCard.tsx 184-185, 189-191: signOut resolved.
SignOutOk(i) ==
    /\ i \in SignOutsInFlight
    /\ user' = NoUser
    /\ logoutLoading' = FALSE
    /\ logouts' = [logouts EXCEPT ![i] = [pc |-> "done", outcome |-> "resolved"]]
    /\ UNCHANGED <<reviewVars, shopVars, location, currentPage, logoutError>>

\* ProductCard.tsx 186-191: signOut rejected.
SignOutFail(i) ==
    /\ i \in SignOutsInFlight
    /\ logoutError' = LogoutFailedMsg
    /\ logoutLoading' = FALSE
    /\ logouts' = [logouts EXCEPT ![i] = [pc |-> "done", outcome |-> "rejected"]]
    /\ UNCHANGED <<reviewVars, shopVars, location, currentPage, user>>

\* The user signs in again: the sign-in view dispatches setUser.
SignIn ==
    /\ user = NoUser
    /\ user' = CurrentUid
    /\ UNCHANGED <<logoutVars, reviewVars, shopVars, location, currentPage>>

NextLogout ==
    \/ HandleLogout
    \/ \E i \in 1..MaxLogouts : SignOutOk(i)
    \/ \E i \in 1..MaxLogouts : SignOutFail(i)
    \/ SignIn

SpecLogout == InitLogout /\ [][NextLogout]_vars

\* The runs of handleLogout whose signOut settles in this step.
SettledLogouts ==
    {i \in SignOutsInFlight : logouts'[i].pc = "done"}

\* C26: in LogoutButton the user state is set to null if and only if signOut
\* resolved; on failure the user state is unchanged and an error message is
\* set; in both cases loading returns to false when the attempt settles, and
\* because the button is disabled while loading at most one signOut is in
\* flight at a time.
C26_LogoutSetsUserIffResolved ==
    /\ [][\A i \in SettledLogouts :
            /\ logouts'[i].outcome = "resolved" =>
                    user' = NoUser /\ logoutError' = logoutError
            /\ logouts'[i].outcome = "rejected" =>
                    user' = user /\ logoutError' = LogoutFailedMsg
            /\ logoutLoading /\ ~logoutLoading']_vars
    /\ [][(user # NoUser /\ user' = NoUser) =>
            \E i \in SettledLogouts : logouts'[i].outcome = "resolved"]_vars
    /\ [](Cardinality(SignOutsInFlight) <= 1)
    /\ [](logoutLoading <=> SignOutsInFlight # {})
    /\ [][Len(logouts') > Len(logouts) => SignOutsInFlight = {}]_vars

C26_Witness ==
    /\ Len(logouts) = 2
    /\ logouts[1].outcome = "rejected" /\ logouts[2].outcome = "resolved"
    /\ user = NoUser /\ ~logoutLoading

=============================================================================
